---- MODULE Spec2Model ----
(***************************************************************************)
(* Model of the typed codec layer of ethereum-rpc                          *)
(* (src/ethereum_rpc/_serialization.py over the schema of _rpc.py).        *)
(*                                                                         *)
(* Text is a sequence of one-character strings, bytes are a sequence of    *)
(* numbers in 0..255.  Every JSON value and every domain value is a        *)
(* record of its kind k and a payload field named after the payload's      *)
(* type; the result of a call is [ok, v, err, msg] where err names the     *)
(* class of the exception that escaped.                                    *)
(***************************************************************************)
EXTENDS Integers, Sequences, FiniteSets, TLC

(* ------------------------------------------------------------------ *)
(* Values                                                              *)
(* ------------------------------------------------------------------ *)

JStr(s) == [k |-> "str", str |-> s]
JInt(n) == [k |-> "int", int |-> n]
JBool(b) == [k |-> "bool", bool |-> b]
JNull == [k |-> "null"]
JList(l) == [k |-> "list", list |-> l]
JMap(m) == [k |-> "map", map |-> m]

PyInt(n) == [k |-> "int", int |-> n]
PyBytes(b) == [k |-> "bytes", bytes |-> b]
PyStr(s) == [k |-> "str", str |-> s]
PyBool(b) == [k |-> "bool", bool |-> b]
PyNone == [k |-> "None"]
PyTuple(l) == [k |-> "tuple", tuple |-> l]

\* a returned value, or an exception of class e with message m
Ok(x) == [ok |-> TRUE, v |-> x, err |-> "none", msg |-> "none"]
Raise(e, m) == [ok |-> FALSE, v |-> PyNone, err |-> e, msg |-> m]

StructuringError == "StructuringError"
ValueError == "ValueError"

(* ------------------------------------------------------------------ *)
(* Python built-ins used by the handlers                              *)
(* ------------------------------------------------------------------ *)

LowerHex == <<"0", "1", "2", "3", "4", "5", "6", "7",
              "8", "9", "a", "b", "c", "d", "e", "f">>
UpperHex == <<"0", "1", "2", "3", "4", "5", "6", "7",
              "8", "9", "A", "B", "C", "D", "E", "F">>

IsHexDigit(c) == \E i \in 1..16 : LowerHex[i] = c \/ UpperHex[i] = c

DigitValue(c) == (CHOOSE i \in 1..16 : LowerHex[i] = c \/ UpperHex[i] = c) - 1

IsSpace(c) == c = " "

StartsWith0x(s) == Len(s) >= 2 /\ s[1] = "0" /\ s[2] = "x"

RECURSIVE HexDigitsOf(_)
HexDigitsOf(n) ==
    IF n < 16 THEN <<LowerHex[n + 1]>>
    ELSE Append(HexDigitsOf(n \div 16), LowerHex[(n % 16) + 1])

\* hex(n): "0x" and the minimal lower-case digits, "-0x..." below zero
PyHex(n) ==
    IF n >= 0 THEN <<"0", "x">> \o HexDigitsOf(n)
    ELSE <<"-", "0", "x">> \o HexDigitsOf(-n)

RECURSIVE StripRight(_)
StripRight(s) ==
    IF Len(s) > 0 /\ IsSpace(s[Len(s)]) THEN StripRight(SubSeq(s, 1, Len(s) - 1))
    ELSE s

RECURSIVE DigitsValue(_)
DigitsValue(d) ==
    IF Len(d) = 0 THEN 0
    ELSE 16 * DigitsValue(SubSeq(d, 1, Len(d) - 1)) + DigitValue(d[Len(d)])

\* int(s, 0) on a text that starts with "0x": one "_" may follow the prefix,
\* single "_" may separate digits, trailing white space is skipped; anything
\* else is a ValueError.
PyIntBase0(s) ==
    LET body == StripRight(SubSeq(s, 3, Len(s)))
        b == IF Len(body) > 0 /\ body[1] = "_" THEN SubSeq(body, 2, Len(body)) ELSE body
        wellFormed ==
            /\ Len(b) > 0
            /\ \A i \in 1..Len(b) : IsHexDigit(b[i]) \/ b[i] = "_"
            /\ b[1] # "_"
            /\ b[Len(b)] # "_"
            /\ \A i \in 1..(Len(b) - 1) : ~(b[i] = "_" /\ b[i + 1] = "_")
    IN  IF wellFormed THEN Ok(PyInt(DigitsValue(SelectSeq(b, IsHexDigit))))
        ELSE Raise(ValueError, "invalid literal for int() with base 0")

\* bytes.fromhex(t): white space is skipped before each pair of digits
PyBytesFromHex(t) ==
    LET pos == SelectSeq([i \in 1..Len(t) |-> i], LAMBDA i : ~IsSpace(t[i]))
        wellFormed ==
            /\ \A j \in 1..Len(pos) : IsHexDigit(t[pos[j]])
            /\ Len(pos) % 2 = 0
            /\ \A j \in 1..(Len(pos) \div 2) : pos[2 * j] = pos[2 * j - 1] + 1
    IN  IF wellFormed
        THEN Ok(PyBytes([j \in 1..(Len(pos) \div 2) |->
                    16 * DigitValue(t[pos[2 * j - 1]]) + DigitValue(t[pos[2 * j]])]))
        ELSE Raise(ValueError, "non-hexadecimal number found in fromhex() arg")

\* b.hex(): two lower-case digits per byte
PyBytesHex(b) ==
    [i \in 1..(2 * Len(b)) |->
        IF i % 2 = 1 THEN LowerHex[(b[(i + 1) \div 2] \div 16) + 1]
        ELSE LowerHex[(b[i \div 2] % 16) + 1]]

(* ------------------------------------------------------------------ *)
(* Leaf handlers                                                       *)
(* ------------------------------------------------------------------ *)

IntoBytesFromHex(val) ==
    IF val.k # "str" \/ ~StartsWith0x(val.str)
    THEN Raise(StructuringError, "The value must be a 0x-prefixed hex-encoded data")
    ELSE LET r == PyBytesFromHex(SubSeq(val.str, 3, Len(val.str)))
         IN  IF r.ok THEN r ELSE Raise(StructuringError, r.msg)

IntoIntFromHex(val) ==
    IF val.k # "str" \/ ~StartsWith0x(val.str)
    THEN Raise(StructuringError, "The value must be a 0x-prefixed hex-encoded integer")
    ELSE PyIntBase0(val.str)

AsIntToHex(n) == JStr(PyHex(n))

\* faulty variant: the prefix is left out
AsBytesToHexNoPrefix(b) == JStr(PyBytesHex(b))

AsBytesToHex(b) == JStr(<<"0", "x">> \o PyBytesHex(b))


(* ------------------------------------------------------------------ *)
(* Domain values and type descriptors                                  *)
(* ------------------------------------------------------------------ *)

\* instances of class cls: fixed-length data, a quantity, an enum member,
\* a dataclass
DataObj(cls, b) == [k |-> cls, bytes |-> b]
QuantityObj(cls, n) == [k |-> cls, int |-> n]
LabelObj(s) == [k |-> "BlockLabel", str |-> s]
RecordObj(cls, f) == [k |-> cls, fields |-> f]

Ty(t, n, a) == [t |-> t, n |-> n, a |-> a]
TInt == Ty("int", "int", <<>>)
TBytes == Ty("bytes", "bytes", <<>>)
TStr == Ty("str", "str", <<>>)
TBool == Ty("bool", "bool", <<>>)
TNone == Ty("none", "NoneType", <<>>)
TErrorCode == Ty("ErrorCode", "ErrorCode", <<>>)
TBlockLabel == Ty("BlockLabel", "BlockLabel", <<>>)
TData(n) == Ty("TypedData", n, <<>>)
TAddress == Ty("Address", "Address", <<>>)
TAmount == Ty("TypedQuantity", "Amount", <<>>)
TUnion(vs) == Ty("union", "Union", vs)
TTuple(e) == Ty("tuple", "tuple", <<e>>)
TRec(n) == Ty("dataclass", n, <<>>)

Field(name, type, dflt) == [name |-> name, type |-> type, dflt |-> dflt]
NoDefault == [has |-> FALSE, v |-> PyNone]
Default(x) == [has |-> TRUE, v |-> x]

HashLength == 32
NonceLength == 8
BloomLength == 256
AddressLength == 20

Length(n) ==
    CASE n \in {"LogTopic", "BlockHash", "TxHash", "TrieHash", "UnclesHash"} -> HashLength
      [] n = "BlockNonce" -> NonceLength
      [] n = "LogsBloom" -> BloomLength
      [] n = "Address" -> AddressLength

BlockLabelValues ==
    { <<"l", "a", "t", "e", "s", "t">>,
      <<"p", "e", "n", "d", "i", "n", "g">>,
      <<"s", "a", "f", "e">>,
      <<"f", "i", "n", "a", "l", "i", "z", "e", "d">>,
      <<"e", "a", "r", "l", "i", "e", "s", "t">> }

\* @dataclass TxInfo
TxInfoFields ==
  <<
    Field(<<"c", "h", "a", "i", "n", "_", "i", "d">>,
          TInt, NoDefault),
    Field(<<"t", "y", "p", "e", "_">>,
          TInt, NoDefault),
    Field(<<"h", "a", "s", "h", "_">>,
          TData("TxHash"), NoDefault),
    Field(<<"i", "n", "p", "u", "t", "_">>,
          TUnion(<<TNone, TBytes>>), NoDefault),
    Field(<<"b", "l", "o", "c", "k", "_", "h", "a", "s", "h">>,
          TUnion(<<TNone, TData("BlockHash")>>), NoDefault),
    Field(<<"b", "l", "o", "c", "k", "_", "n", "u", "m", "b", "e", "r">>,
          TInt, NoDefault),
    Field(<<"t", "r", "a", "n", "s", "a", "c", "t", "i", "o", "n", "_", "i", "n", "d", "e", "x">>,
          TUnion(<<TNone, TInt>>), NoDefault),
    Field(<<"f", "r", "o", "m", "_">>,
          TAddress, NoDefault),
    Field(<<"t", "o">>,
          TUnion(<<TNone, TAddress>>), NoDefault),
    Field(<<"v", "a", "l", "u", "e">>,
          TAmount, NoDefault),
    Field(<<"n", "o", "n", "c", "e">>,
          TInt, NoDefault),
    Field(<<"g", "a", "s">>,
          TInt, NoDefault),
    Field(<<"g", "a", "s", "_", "p", "r", "i", "c", "e">>,
          TAmount, NoDefault),
    Field(<<"m", "a", "x", "_", "f", "e", "e", "_", "p", "e", "r", "_", "g", "a", "s">>,
          TUnion(<<TNone, TAmount>>), NoDefault),
    Field(<<"m", "a", "x", "_", "p", "r", "i", "o", "r", "i", "t", "y", "_", "f", "e", "e", "_", "p", "e", "r", "_", "g", "a", "s">>,
          TUnion(<<TNone, TAmount>>), NoDefault),
    Field(<<"v">>,
          TInt, NoDefault),
    Field(<<"r">>,
          TInt, NoDefault),
    Field(<<"s">>,
          TInt, NoDefault)
  >>

\* @dataclass LogEntry
LogEntryFields ==
  <<
    Field(<<"r", "e", "m", "o", "v", "e", "d">>,
          TBool, NoDefault),
    Field(<<"a", "d", "d", "r", "e", "s", "s">>,
          TAddress, NoDefault),
    Field(<<"d", "a", "t", "a">>,
          TBytes, NoDefault),
    Field(<<"t", "o", "p", "i", "c", "s">>,
          TTuple(TData("LogTopic")), NoDefault),
    Field(<<"l", "o", "g", "_", "i", "n", "d", "e", "x">>,
          TInt, NoDefault),
    Field(<<"t", "r", "a", "n", "s", "a", "c", "t", "i", "o", "n", "_", "i", "n", "d", "e", "x">>,
          TInt, NoDefault),
    Field(<<"t", "r", "a", "n", "s", "a", "c", "t", "i", "o", "n", "_", "h", "a", "s", "h">>,
          TData("TxHash"), NoDefault),
    Field(<<"b", "l", "o", "c", "k", "_", "h", "a", "s", "h">>,
          TData("BlockHash"), NoDefault),
    Field(<<"b", "l", "o", "c", "k", "_", "n", "u", "m", "b", "e", "r">>,
          TInt, NoDefault)
  >>

\* @dataclass TxReceipt
TxReceiptFields ==
  <<
    Field(<<"b", "l", "o", "c", "k", "_", "h", "a", "s", "h">>,
          TData("BlockHash"), NoDefault),
    Field(<<"b", "l", "o", "c", "k", "_", "n", "u", "m", "b", "e", "r">>,
          TInt, NoDefault),
    Field(<<"c", "o", "n", "t", "r", "a", "c", "t", "_", "a", "d", "d", "r", "e", "s", "s">>,
          TUnion(<<TNone, TAddress>>), NoDefault),
    Field(<<"c", "u", "m", "u", "l", "a", "t", "i", "v", "e", "_", "g", "a", "s", "_", "u", "s", "e", "d">>,
          TInt, NoDefault),
    Field(<<"e", "f", "f", "e", "c", "t", "i", "v", "e", "_", "g", "a", "s", "_", "p", "r", "i", "c", "e">>,
          TAmount, NoDefault),
    Field(<<"f", "r", "o", "m", "_">>,
          TAddress, NoDefault),
    Field(<<"g", "a", "s", "_", "u", "s", "e", "d">>,
          TInt, NoDefault),
    Field(<<"t", "o">>,
          TUnion(<<TNone, TAddress>>), NoDefault),
    Field(<<"t", "r", "a", "n", "s", "a", "c", "t", "i", "o", "n", "_", "h", "a", "s", "h">>,
          TData("TxHash"), NoDefault),
    Field(<<"t", "r", "a", "n", "s", "a", "c", "t", "i", "o", "n", "_", "i", "n", "d", "e", "x">>,
          TInt, NoDefault),
    Field(<<"t", "y", "p", "e", "_">>,
          TInt, NoDefault),
    Field(<<"s", "t", "a", "t", "u", "s">>,
          TInt, NoDefault),
    Field(<<"l", "o", "g", "s">>,
          TTuple(TRec("LogEntry")), NoDefault),
    Field(<<"l", "o", "g", "s", "_", "b", "l", "o", "o", "m">>,
          TData("LogsBloom"), NoDefault)
  >>

\* @dataclass BlockInfo
BlockInfoFields ==
  <<
    Field(<<"n", "u", "m", "b", "e", "r">>,
          TInt, NoDefault),
    Field(<<"h", "a", "s", "h", "_">>,
          TUnion(<<TNone, TData("BlockHash")>>), NoDefault),
    Field(<<"p", "a", "r", "e", "n", "t", "_", "h", "a", "s", "h">>,
          TData("BlockHash"), NoDefault),
    Field(<<"n", "o", "n", "c", "e">>,
          TUnion(<<TNone, TData("BlockNonce")>>), NoDefault),
    Field(<<"m", "i", "n", "e", "r">>,
          TUnion(<<TNone, TAddress>>), NoDefault),
    Field(<<"d", "i", "f", "f", "i", "c", "u", "l", "t", "y">>,
          TInt, NoDefault),
    Field(<<"t", "o", "t", "a", "l", "_", "d", "i", "f", "f", "i", "c", "u", "l", "t", "y">>,
          TUnion(<<TNone, TInt>>), NoDefault),
    Field(<<"s", "i", "z", "e">>,
          TInt, NoDefault),
    Field(<<"g", "a", "s", "_", "l", "i", "m", "i", "t">>,
          TInt, NoDefault),
    Field(<<"g", "a", "s", "_", "u", "s", "e", "d">>,
          TInt, NoDefault),
    Field(<<"b", "a", "s", "e", "_", "f", "e", "e", "_", "p", "e", "r", "_", "g", "a", "s">>,
          TAmount, NoDefault),
    Field(<<"t", "i", "m", "e", "s", "t", "a", "m", "p">>,
          TInt, NoDefault),
    Field(<<"t", "r", "a", "n", "s", "a", "c", "t", "i", "o", "n", "s">>,
          TUnion(<<TTuple(TRec("TxInfo")), TTuple(TData("TxHash"))>>), NoDefault),
    Field(<<"u", "n", "c", "l", "e", "s">>,
          TTuple(TData("BlockHash")), NoDefault),
    Field(<<"s", "h", "a", "3", "_", "u", "n", "c", "l", "e", "s">>,
          TData("UnclesHash"), NoDefault),
    Field(<<"l", "o", "g", "s", "_", "b", "l", "o", "o", "m">>,
          TUnion(<<TNone, TData("LogsBloom")>>), NoDefault),
    Field(<<"t", "r", "a", "n", "s", "a", "c", "t", "i", "o", "n", "s", "_", "r", "o", "o", "t">>,
          TData("TrieHash"), NoDefault),
    Field(<<"s", "t", "a", "t", "e", "_", "r", "o", "o", "t">>,
          TData("TrieHash"), NoDefault),
    Field(<<"r", "e", "c", "e", "i", "p", "t", "s", "_", "r", "o", "o", "t">>,
          TData("TrieHash"), NoDefault),
    Field(<<"e", "x", "t", "r", "a", "_", "d", "a", "t", "a">>,
          TBytes, NoDefault)
  >>

\* @dataclass RPCError
RPCErrorFields ==
  <<
    Field(<<"c", "o", "d", "e">>,
          TErrorCode, NoDefault),
    Field(<<"m", "e", "s", "s", "a", "g", "e">>,
          TStr, NoDefault),
    Field(<<"d", "a", "t", "a">>,
          TUnion(<<TNone, TBytes>>), Default(PyNone))
  >>

\* @dataclass Type2Transaction
Type2TransactionFields ==
  <<
    Field(<<"c", "h", "a", "i", "n", "_", "i", "d">>,
          TInt, NoDefault),
    Field(<<"v", "a", "l", "u", "e">>,
          TAmount, NoDefault),
    Field(<<"g", "a", "s">>,
          TInt, NoDefault),
    Field(<<"m", "a", "x", "_", "f", "e", "e", "_", "p", "e", "r", "_", "g", "a", "s">>,
          TAmount, NoDefault),
    Field(<<"m", "a", "x", "_", "p", "r", "i", "o", "r", "i", "t", "y", "_", "f", "e", "e", "_", "p", "e", "r", "_", "g", "a", "s">>,
          TAmount, NoDefault),
    Field(<<"n", "o", "n", "c", "e">>,
          TInt, NoDefault),
    Field(<<"t", "o">>,
          TUnion(<<TNone, TAddress>>), Default(PyNone)),
    Field(<<"d", "a", "t", "a">>,
          TUnion(<<TNone, TBytes>>), Default(PyNone))
  >>

\* @dataclass EthCallParams
EthCallParamsFields ==
  <<
    Field(<<"t", "o">>,
          TAddress, NoDefault),
    Field(<<"f", "r", "o", "m", "_">>,
          TUnion(<<TNone, TAddress>>), Default(PyNone)),
    Field(<<"g", "a", "s">>,
          TUnion(<<TNone, TInt>>), Default(PyNone)),
    Field(<<"g", "a", "s", "_", "p", "r", "i", "c", "e">>,
          TInt, Default(PyInt(0))),
    Field(<<"v", "a", "l", "u", "e">>,
          TAmount, Default(QuantityObj("Amount", 0))),
    Field(<<"d", "a", "t", "a">>,
          TUnion(<<TNone, TBytes>>), Default(PyNone))
  >>

\* @dataclass EstimateGasParams
EstimateGasParamsFields ==
  <<
    Field(<<"f", "r", "o", "m", "_">>,
          TAddress, NoDefault),
    Field(<<"t", "o">>,
          TUnion(<<TNone, TAddress>>), Default(PyNone)),
    Field(<<"g", "a", "s">>,
          TUnion(<<TNone, TInt>>), Default(PyNone)),
    Field(<<"g", "a", "s", "_", "p", "r", "i", "c", "e">>,
          TInt, Default(PyInt(0))),
    Field(<<"n", "o", "n", "c", "e">>,
          TUnion(<<TNone, TInt>>), Default(PyNone)),
    Field(<<"v", "a", "l", "u", "e">>,
          TAmount, Default(QuantityObj("Amount", 0))),
    Field(<<"d", "a", "t", "a">>,
          TUnion(<<TNone, TBytes>>), Default(PyNone))
  >>

\* @dataclass FilterParams
FilterParamsFields ==
  <<
    Field(<<"f", "r", "o", "m", "_", "b", "l", "o", "c", "k">>,
          TUnion(<<TNone, TInt, TBlockLabel>>), Default(PyNone)),
    Field(<<"t", "o", "_", "b", "l", "o", "c", "k">>,
          TUnion(<<TNone, TInt, TBlockLabel>>), Default(PyNone)),
    Field(<<"a", "d", "d", "r", "e", "s", "s">>,
          TUnion(<<TNone, TAddress, TTuple(TAddress)>>), Default(PyNone)),
    Field(<<"t", "o", "p", "i", "c", "s">>,
          TUnion(<<TNone, TTuple(TUnion(<<TNone, TData("LogTopic"), TTuple(TData("LogTopic"))>>))>>), Default(PyNone))
  >>

\* @dataclass FilterParamsEIP234
FilterParamsEIP234Fields ==
  <<
    Field(<<"b", "l", "o", "c", "k", "_", "h", "a", "s", "h">>,
          TData("BlockHash"), NoDefault),
    Field(<<"a", "d", "d", "r", "e", "s", "s">>,
          TUnion(<<TNone, TAddress, TTuple(TAddress)>>), Default(PyNone)),
    Field(<<"t", "o", "p", "i", "c", "s">>,
          TUnion(<<TNone, TTuple(TUnion(<<TNone, TData("LogTopic"), TTuple(TData("LogTopic"))>>))>>), Default(PyNone))
  >>

Fields(n) ==
    CASE n = "TxInfo" -> TxInfoFields
      [] n = "LogEntry" -> LogEntryFields
      [] n = "TxReceipt" -> TxReceiptFields
      [] n = "BlockInfo" -> BlockInfoFields
      [] n = "RPCError" -> RPCErrorFields
      [] n = "Type2Transaction" -> Type2TransactionFields
      [] n = "EthCallParams" -> EthCallParamsFields
      [] n = "EstimateGasParams" -> EstimateGasParamsFields
      [] n = "FilterParams" -> FilterParamsFields
      [] n = "FilterParamsEIP234" -> FilterParamsEIP234Fields

RecordTypes == {"TxInfo", "LogEntry", "TxReceipt", "BlockInfo", "RPCError", "Type2Transaction", "EthCallParams", "EstimateGasParams", "FilterParams", "FilterParamsEIP234"}


(* ------------------------------------------------------------------ *)
(* Field-name translation                                              *)
(* ------------------------------------------------------------------ *)

LowerLetters == <<"a", "b", "c", "d", "e", "f", "g", "h", "i", "j", "k", "l", "m",
                  "n", "o", "p", "q", "r", "s", "t", "u", "v", "w", "x", "y", "z">>
UpperLetters == <<"A", "B", "C", "D", "E", "F", "G", "H", "I", "J", "K", "L", "M",
                  "N", "O", "P", "Q", "R", "S", "T", "U", "V", "W", "X", "Y", "Z">>

PyUpper(c) ==
    IF \E i \in 1..26 : LowerLetters[i] = c
    THEN UpperLetters[CHOOSE i \in 1..26 : LowerLetters[i] = c]
    ELSE c

PyLower(c) ==
    IF \E i \in 1..26 : UpperLetters[i] = c
    THEN LowerLetters[CHOOSE i \in 1..26 : UpperLetters[i] = c]
    ELSE c

\* str.capitalize(): the first character upper-cased, the others lower-cased
PyCapitalize(part) ==
    [i \in 1..Len(part) |-> IF i = 1 THEN PyUpper(part[i]) ELSE PyLower(part[i])]

PyRemoveSuffixUnderscore(name) ==
    IF Len(name) > 0 /\ name[Len(name)] = "_" THEN SubSeq(name, 1, Len(name) - 1)
    ELSE name

RECURSIVE PySplitUnderscore(_)
PySplitUnderscore(s) ==
    IF \A i \in 1..Len(s) : s[i] # "_" THEN <<s>>
    ELSE LET i == CHOOSE j \in 1..Len(s) :
                      s[j] = "_" /\ \A h \in 1..(j - 1) : s[h] # "_"
         IN  <<SubSeq(s, 1, i - 1)>> \o PySplitUnderscore(SubSeq(s, i + 1, Len(s)))

RECURSIVE JoinCapitalized(_)
JoinCapitalized(parts) ==
    IF Len(parts) = 0 THEN <<>>
    ELSE PyCapitalize(Head(parts)) \o JoinCapitalized(Tail(parts))

RECURSIVE JoinParts(_)
JoinParts(parts) == IF Len(parts) = 0 THEN <<>> ELSE Head(parts) \o JoinParts(Tail(parts))

\* faulty variant: the later parts are joined as they are
to_camel_case_flat(name) ==
    LET parts == PySplitUnderscore(PyRemoveSuffixUnderscore(name))
    IN  parts[1] \o JoinParts(Tail(parts))

to_camel_case(name) ==
    LET parts == PySplitUnderscore(PyRemoveSuffixUnderscore(name))
    IN  parts[1] \o JoinCapitalized(Tail(parts))

\* the name converter the structuring registry is configured with
StructureWireName(name) == to_camel_case(name)

\* the name converter the unstructuring registry is configured with
UnstructureWireName(name) == to_camel_case(name)

(* ------------------------------------------------------------------ *)
(* Typed wrappers (constructors and checksum)                          *)
(* ------------------------------------------------------------------ *)

ValidationError == "ValidationError"

\* TypedData(data): the length must be the class's length
NewTypedData(cls, data) ==
    IF Len(data) = Length(cls) THEN Ok(DataObj(cls, data)) ELSE Raise(ValidationError, "LengthMismatch")

\* TypedQuantity(value): the value must not be negative
NewTypedQuantity(cls, n) ==
    IF n >= 0 THEN Ok(QuantityObj(cls, n)) ELSE Raise(ValidationError, "NegativeValue")

\* Address.checksum: "0x" and the mixed-case hex of the bytes.  The case of
\* each letter is a fixed function of the bytes (a stand-in for the hash).
Checksum(b) ==
    LET h == PyBytesHex(b)
        sum == (b[1] + b[Len(b)]) % 2
    IN  <<"0", "x">> \o [i \in 1..Len(h) |-> IF (i + sum) % 2 = 0 THEN PyUpper(h[i]) ELSE h[i]]

(* ------------------------------------------------------------------ *)
(* Handlers of the structuring registry                                *)
(* ------------------------------------------------------------------ *)

IntoBlockLabel(val) ==
    IF val.k = "str" /\ val.str \in BlockLabelValues THEN Ok(LabelObj(val.str))
    ELSE Raise(StructuringError, "not a valid BlockLabel")

IntoTypedData(cls, val) ==
    LET data == IntoBytesFromHex(val)
    IN  IF data.ok THEN NewTypedData(cls, data.v.bytes) ELSE data

IntoTypedQuantity(cls, val) ==
    LET int_val == IntoIntFromHex(val)
    IN  IF int_val.ok THEN NewTypedQuantity(cls, int_val.v.int) ELSE int_val

IntoInt(val) ==
    IF val.k = "int" THEN Ok(PyInt(val.int)) ELSE Raise(StructuringError, "The value must be an integer")
IntoStr(val) ==
    IF val.k = "str" THEN Ok(PyStr(val.str)) ELSE Raise(StructuringError, "The value must be a string")
IntoBool(val) ==
    IF val.k = "bool" THEN Ok(PyBool(val.bool)) ELSE Raise(StructuringError, "The value must be a boolean")
IntoNone(val) ==
    IF val.k = "null" THEN Ok(PyNone) ELSE Raise(StructuringError, "The value must be None")

\* the registry entry ErrorCode: IntoInt()
IntoErrorCode(val) == IntoInt(val)

IsOptional(T) == T.t = "union" /\ \E i \in 1..Len(T.a) : T.a[i].t = "none"

\* What the record handler does for a field whose wire key is absent.  A field
\* that is neither optional nor defaulted is a missing field under every
\* policy; for the others the policy pol is an input of the call.
AbsentField(f, pol) ==
    IF pol = "defaults" /\ f.dflt.has THEN Ok(f.dflt.v)
    ELSE IF pol = "optionals" /\ IsOptional(f.type) THEN Ok(PyNone)
    ELSE Raise(StructuringError, "Missing field")

MissingPolicies == {"strict", "defaults", "optionals"}

RECURSIVE StructureInto(_, _, _), IntoUnion(_, _, _), IntoTupleElems(_, _, _),
          IntoFields(_, _, _, _)

\* IntoUnion: the variants in declaration order, the first that structures
\* wins; only a StructuringError moves on to the next variant
IntoUnion(variants, val, pol) ==
    IF Len(variants) = 0 THEN Raise(StructuringError, "Cannot structure into the union")
    ELSE LET r == StructureInto(Head(variants), val, pol)
         IN  IF r.ok \/ r.err # StructuringError THEN r
             ELSE IntoUnion(Tail(variants), val, pol)

\* the elements of tuple[T, ...] in order, stopping at the first failure
IntoTupleElems(T, elems, pol) ==
    IF Len(elems) = 0 THEN Ok(<<>>)
    ELSE LET r == StructureInto(T, Head(elems), pol)
         IN  IF ~r.ok THEN r
             ELSE LET rest == IntoTupleElems(T, Tail(elems), pol)
                  IN  IF rest.ok THEN Ok(<<r.v>> \o rest.v) ELSE rest

IntoTuple(T, val, pol) ==
    IF val.k # "list" THEN Raise(StructuringError, "Can only structure a list into a tuple")
    ELSE LET r == IntoTupleElems(T, val.list, pol)
         IN  IF r.ok THEN Ok(PyTuple(r.v)) ELSE r

\* one field of a record: looked up under its wire name, structured into the
\* field's type
IntoField(f, m, pol) ==
    LET name == StructureWireName(f.name)
    IN  IF name \in DOMAIN m THEN StructureInto(f.type, m[name], pol)
        ELSE AbsentField(f, pol)

\* the fields of a record in declared order, stopping at the first failure
IntoFields(fields, m, pol, acc) ==
    IF Len(acc) = Len(fields) THEN Ok(acc)
    ELSE LET r == IntoField(fields[Len(acc) + 1], m, pol)
         IN  IF r.ok THEN IntoFields(fields, m, pol, Append(acc, r.v)) ELSE r

\* cls(**results)
NewRecord(cls, vals) ==
    LET fs == Fields(cls)
    IN  RecordObj(cls, [n \in {fs[i].name : i \in 1..Len(fs)} |->
                           vals[CHOOSE i \in 1..Len(fs) : fs[i].name = n]])

IntoDataclassFromMapping(cls, val, pol) ==
    IF val.k # "map"
    THEN Raise(StructuringError, "Can only structure a mapping into a dataclass")
    ELSE LET r == IntoFields(Fields(cls), val.map, pol, <<>>)
         IN  IF r.ok THEN Ok(NewRecord(cls, r.v)) ELSE r

\* STRUCTURER.structure_into for every type but Type2Transaction
StructureInto(T, val, pol) ==
    CASE T.t = "int" -> IntoIntFromHex(val)
      [] T.t = "bytes" -> IntoBytesFromHex(val)
      [] T.t = "str" -> IntoStr(val)
      [] T.t = "bool" -> IntoBool(val)
      [] T.t = "none" -> IntoNone(val)
      [] T.t = "ErrorCode" -> IntoErrorCode(val)
      [] T.t = "BlockLabel" -> IntoBlockLabel(val)
      [] T.t \in {"TypedData", "Address"} -> IntoTypedData(T.n, val)
      [] T.t = "TypedQuantity" -> IntoTypedQuantity(T.n, val)
      [] T.t = "union" -> IntoUnion(T.a, val, pol)
      [] T.t = "tuple" -> IntoTuple(T.a[1], val, pol)
      [] T.t = "dataclass" -> IntoDataclassFromMapping(T.n, val, pol)

(* ------------------------------------------------------------------ *)
(* Handlers of the unstructuring registry                              *)
(* ------------------------------------------------------------------ *)

AsTypedQuantity(val) == JStr(PyHex(val.int))
\* faulty variant: the prefix is left out
AsTypedDataNoPrefix(val) == JStr(PyBytesHex(val.bytes))

AsTypedData(val) == JStr(<<"0", "x">> \o PyBytesHex(val.bytes))
AsAddress(val) == JStr(Checksum(val.bytes))
AsBlockLabel(val) == JStr(val.str)
AsInt(val) == JInt(val.int)
AsStr(val) == JStr(val.str)
AsBool(val) == JBool(val.bool)
AsNone(val) == JNull

\* faulty variant: the error code is unstructured like any other integer
AsErrorCodeHex(val) == AsIntToHex(val.int)

\* the registry entry ErrorCode: AsInt()
AsErrorCode(val) == AsInt(val)

RECURSIVE IsInstance(_, _)
IsInstance(T, x) ==
    CASE T.t \in {"int", "ErrorCode"} -> x.k = "int"
      [] T.t = "bytes" -> x.k = "bytes"
      [] T.t = "str" -> x.k = "str"
      [] T.t = "bool" -> x.k = "bool"
      [] T.t = "none" -> x.k = "None"
      [] T.t = "union" -> \E i \in 1..Len(T.a) : IsInstance(T.a[i], x)
      [] T.t = "tuple" -> x.k = "tuple" /\ \A i \in 1..Len(x.tuple) : IsInstance(T.a[1], x.tuple[i])
      [] OTHER -> x.k = T.n

RECURSIVE UnstructureAs(_, _)

\* AsUnion: the variant the value is an instance of
AsUnion(variants, x) ==
    UnstructureAs(variants[CHOOSE i \in 1..Len(variants) :
                               /\ IsInstance(variants[i], x)
                               /\ \A j \in 1..(i - 1) : ~IsInstance(variants[j], x)], x)

AsTuple(T, x) == JList([i \in 1..Len(x.tuple) |-> UnstructureAs(T, x.tuple[i])])

\* AsDataclassToDict: every field under its wire name
AsDataclassToDict(cls, x) ==
    LET fs == Fields(cls)
    IN  JMap([w \in {UnstructureWireName(fs[i].name) : i \in 1..Len(fs)} |->
                LET f == fs[CHOOSE i \in 1..Len(fs) : UnstructureWireName(fs[i].name) = w]
                IN  UnstructureAs(f.type, x.fields[f.name])])

\* UNSTRUCTURER.unstructure_as for every type but Type2Transaction
UnstructureAs(T, x) ==
    CASE T.t = "int" -> AsIntToHex(x.int)
      [] T.t = "bytes" -> AsBytesToHex(x.bytes)
      [] T.t = "str" -> AsStr(x)
      [] T.t = "bool" -> AsBool(x)
      [] T.t = "none" -> AsNone(x)
      [] T.t = "ErrorCode" -> AsErrorCode(x)
      [] T.t = "BlockLabel" -> AsBlockLabel(x)
      [] T.t = "TypedData" -> AsTypedData(x)
      [] T.t = "Address" -> AsAddress(x)
      [] T.t = "TypedQuantity" -> AsTypedQuantity(x)
      [] T.t = "union" -> AsUnion(T.a, x)
      [] T.t = "tuple" -> AsTuple(T.a[1], x)
      [] T.t = "dataclass" -> AsDataclassToDict(T.n, x)


(* ------------------------------------------------------------------ *)
(* Valid instances of the schema                                       *)
(* ------------------------------------------------------------------ *)

MaxSeed == 6
MaxTupleLen == 2

IntSamples == <<0, 1, 10, 255, 256, 43981>>
ErrorCodeSamples == <<-32000, -32600, -32601, -32602, 3, 0>>
BytesSamples == << <<>>, <<0>>, <<171, 205>>, <<1, 0, 255>> >>
StrSamples == << <<>>, <<"0", "x", "1">>, <<"e", "r", "r", " ", "X">> >>
LabelSamples == << <<"l", "a", "t", "e", "s", "t">>, <<"p", "e", "n", "d", "i", "n", "g">>,
                   <<"s", "a", "f", "e">>, <<"f", "i", "n", "a", "l", "i", "z", "e", "d">>,
                   <<"e", "a", "r", "l", "i", "e", "s", "t">> >>

\* the s-th fixed-length byte string: a pattern that fills the length
DataSample(cls, s) == DataObj(cls, [i \in 1..Length(cls) |-> (i * (37 * s + 11) + s) % 256])

Pick(samples, s) == samples[(s % Len(samples)) + 1]

RECURSIVE Sample(_, _), Instance(_, _)

\* the s-th valid value of type T
Sample(T, s) ==
    CASE T.t = "int" -> PyInt(Pick(IntSamples, s))
      [] T.t = "ErrorCode" -> PyInt(Pick(ErrorCodeSamples, s))
      [] T.t = "bytes" -> PyBytes(Pick(BytesSamples, s))
      [] T.t = "str" -> PyStr(Pick(StrSamples, s))
      [] T.t = "bool" -> PyBool(s % 2 = 0)
      [] T.t = "none" -> PyNone
      [] T.t = "BlockLabel" -> LabelObj(Pick(LabelSamples, s))
      [] T.t \in {"TypedData", "Address"} -> DataSample(T.n, s)
      [] T.t = "TypedQuantity" -> QuantityObj(T.n, Pick(IntSamples, s + 1))
      [] T.t = "union" -> Sample(T.a[(s % Len(T.a)) + 1], s \div Len(T.a))
      [] T.t = "tuple" ->
            PyTuple([i \in 1..(s % (MaxTupleLen + 1)) |-> Sample(T.a[1], s + i)])
      [] T.t = "dataclass" -> Instance(T.n, s)

\* the s-th valid instance of record class cls: field i holds its (s+i)-th value
Instance(cls, s) ==
    LET fs == Fields(cls)
    IN  RecordObj(cls, [n \in {fs[i].name : i \in 1..Len(fs)} |->
                    LET i == CHOOSE j \in 1..Len(fs) : fs[j].name = n
                    IN  Sample(fs[i].type, s + i - 1)])


(* ------------------------------------------------------------------ *)
(* Inputs                                                              *)
(* ------------------------------------------------------------------ *)

MaxBodyLen == 4
MaxInt == 300
MaxBytesLen == 3

Alphabet == {"0", "1", "a", "F", "x", "_", " "}
ByteSet == {0, 1, 16, 171, 255}

Texts(n) == UNION {[1..m -> Alphabet] : m \in 0..n}

TextHeads == { <<>>, <<"0", "x">>, <<"0", "X">>, <<" ", "0", "x">>, <<"-", "0", "x">> }

\* JSON strings: a head and a body of at most MaxBodyLen characters
WireTexts == {JStr(h \o b) : h \in TextHeads, b \in Texts(MaxBodyLen)}

NonTexts == {JNull, JInt(0), JInt(16), JBool(TRUE), JList(<<>>), JList(<<JStr(<<"0", "x", "1">>)>>)}

ByteStrings == UNION {[1..m -> ByteSet] : m \in 0..MaxBytesLen}

TypeKey == <<"t", "y", "p", "e">>
ExtraKey == <<"u", "n", "k", "n", "o", "w", "n", "K", "e", "y">>

\* values put in place of a field's value
Replacements ==
    { JStr(<<"0", "x">>), JStr(<<"0", "x", "3">>), JStr(<<"3">>), JInt(3), JList(<<JInt(1)>>) }

TType2 == Ty("Type2Transaction", "Type2Transaction", <<>>)

PlainRecordTypes == RecordTypes \ {"Type2Transaction"}

\* a function without one key, with one value replaced, with one more key
DropKey(m, key) == [x \in (DOMAIN m) \ {key} |-> m[x]]
PutKey(m, key, val) == [x \in (DOMAIN m) \cup {key} |-> IF x = key THEN val ELSE m[x]]

\* the wire form of the s-th valid instance of record class cls
WireForm(cls, s) == AsDataclassToDict(cls, Instance(cls, s)).map

WireForms(cls, n) == {WireForm(cls, s) : s \in 0..(n - 1)}

WireKeys(cls) == {to_camel_case(Fields(cls)[i].name) : i \in 1..Len(Fields(cls))}

MaxMutSeed == 2

\* The values structured into record class cls with every wire key present:
\* the wire form of a valid instance, as it is, with one value replaced or
\* with an unknown key added; and values that are no mapping.
RecordInputs(cls) ==
    {JMap(m) : m \in WireForms(cls, MaxSeed)}
    \cup {JMap(PutKey(m, key, val)) : m \in WireForms(cls, MaxMutSeed),
                                       key \in WireKeys(cls), val \in Replacements}
    \cup {JMap(PutKey(m, ExtraKey, JInt(1))) : m \in WireForms(cls, MaxMutSeed)}
    \cup {JNull, JList(<<>>), JStr(<<"0", "x">>)}

\* the wire form of a valid instance with one key dropped
RecordInputsAbsent(cls) ==
    {JMap(DropKey(m, key)) : m \in WireForms(cls, MaxMutSeed), key \in WireKeys(cls)}

TypeValues ==
    { JStr(<<"0", "x", "2">>), JStr(<<"0", "x", "1">>), JStr(<<"0", "x", "0">>),
      JStr(<<"0", "x", "0", "2">>), JStr(<<"0", "x", "2", " ">>), JStr(<<"0", "x", "_", "2">>),
      JStr(<<"0", "x", "2", "0">>), JStr(<<"0", "x">>), JStr(<<"2">>), JInt(2), JInt(1), JNull }

\* The mappings structured into Type2Transaction: those of the record, with
\* or without a "type" entry.
TypedTxInputs ==
    LET inner == RecordInputs("Type2Transaction") \cup RecordInputsAbsent("Type2Transaction")
    IN  inner \cup {JMap(PutKey(i.map, TypeKey, tv)) : i \in {x \in inner : x.k = "map"},
                                                      tv \in TypeValues}

LeafTypes == {TAmount, TBlockLabel, TData("BlockNonce"), TAddress, TStr, TBool, TNone, TErrorCode,
              TUnion(<<TNone, TInt, TBlockLabel>>), TTuple(TInt)}

\* short texts, values that are no text, the labels, and for a fixed-length
\* type the wire form of its own valid values
LeafInputs(T) ==
    {JStr(h \o b) : h \in TextHeads, b \in Texts(2)} \cup NonTexts
    \cup {JStr(l) : l \in BlockLabelValues}
    \cup {JList(<<JStr(<<"0", "x", "1">>), JStr(<<"0", "x">>)>>)}
    \cup IF T.t \in {"TypedData", "Address"}
         THEN {UnstructureAs(T, Sample(T, s)) : s \in 0..1}
         ELSE {}

(* ------------------------------------------------------------------ *)
(* The calls                                                           *)
(* ------------------------------------------------------------------ *)

VARIABLES
    pc,       \* "idle", "done", or the position inside the typed-transaction handlers
    op,       \* "structure", "unstructure", "roundtrip", "name"
    ty,       \* the type the call structures into or unstructures as
    arg,      \* the JSON value given to structure()
    orig,     \* the domain value given to unstructure()
    pol,      \* the record handler's policy for absent keys
    ret,      \* the result of the call
    tx_type,  \* _IntoTypedTx: the decoded "type"
    acc,      \* the inner record handler: the fields done so far
    tx_dict   \* _AsTypedTx: the mapping the inner record handler builds

vars == <<pc, op, ty, arg, orig, pol, ret, tx_type, acc, tx_dict>>

EmptyMap == [x \in {} |-> JNull]

Init ==
    /\ pc = "idle"
    /\ op = "none"
    /\ ty = TNone
    /\ arg = JNull
    /\ orig = PyNone
    /\ pol = "strict"
    /\ ret = Ok(PyNone)
    /\ tx_type = Ok(PyNone)
    /\ acc = <<>>
    /\ tx_dict = EmptyMap

Finish(r) ==
    /\ ret' = r
    /\ pc' = "done"

\* structure(int, val), structure(bytes, val)
StructureHex ==
    /\ pc = "idle"
    /\ \E T \in {TInt, TBytes}, val \in WireTexts \cup NonTexts :
          /\ op' = "structure"
          /\ ty' = T
          /\ arg' = val
          /\ Finish(StructureInto(T, val, pol))
    /\ UNCHANGED <<orig, pol, tx_type, acc, tx_dict>>

\* structure(T, val) for the other leaf types
StructureLeaf ==
    /\ pc = "idle"
    /\ \E T \in LeafTypes :
        \E val \in LeafInputs(T) :
          /\ op' = "structure"
          /\ ty' = T
          /\ arg' = val
          /\ Finish(StructureInto(T, val, pol))
    /\ UNCHANGED <<orig, pol, tx_type, acc, tx_dict>>

\* structure(R, val) for a record class R, every wire key present
StructureRecord ==
    /\ pc = "idle"
    /\ \E cls \in PlainRecordTypes :
          \E val \in RecordInputs(cls) :
              /\ op' = "structure"
              /\ ty' = TRec(cls)
              /\ arg' = val
              /\ Finish(StructureInto(TRec(cls), val, pol))
    /\ UNCHANGED <<orig, pol, tx_type, acc, tx_dict>>

\* structure(R, val) for a record class R, one wire key absent
StructureRecordAbsent ==
    /\ pc = "idle"
    /\ \E cls \in PlainRecordTypes, p \in MissingPolicies :
          \E val \in RecordInputsAbsent(cls) :
              /\ op' = "structure"
              /\ ty' = TRec(cls)
              /\ arg' = val
              /\ pol' = p
              /\ Finish(StructureInto(TRec(cls), val, p))
    /\ UNCHANGED <<orig, tx_type, acc, tx_dict>>

\* unstructure(n), unstructure(b)
UnstructureHex ==
    /\ pc = "idle"
    /\ \E x \in {PyInt(n) : n \in 0..MaxInt} \cup {PyBytes(b) : b \in ByteStrings} :
          /\ op' = "unstructure"
          /\ ty' = IF x.k = "int" THEN TInt ELSE TBytes
          /\ orig' = x
          /\ Finish(Ok(UnstructureAs(IF x.k = "int" THEN TInt ELSE TBytes, x)))
    /\ UNCHANGED <<arg, pol, tx_type, acc, tx_dict>>

\* unstructure(v) for an instance of a record class
UnstructureRecord ==
    /\ pc = "idle"
    /\ \E cls \in PlainRecordTypes, s \in 0..(MaxSeed - 1) :
          /\ op' = "unstructure"
          /\ ty' = TRec(cls)
          /\ orig' = Instance(cls, s)
          /\ Finish(Ok(UnstructureAs(TRec(cls), Instance(cls, s))))
    /\ UNCHANGED <<arg, pol, tx_type, acc, tx_dict>>

\* structure(T, unstructure(v)): the second call of a round trip
StructureBack ==
    /\ pc = "done"
    /\ op = "unstructure"
    /\ ret.ok
    /\ op' = "roundtrip"
    /\ arg' = ret.v
    /\ \E p \in MissingPolicies : pol' = p
    /\ IF ty = TType2
       THEN /\ pc' = "tx_check_mapping"
            /\ ret' = Ok(PyNone)
            /\ acc' = <<>>
       ELSE /\ Finish(StructureInto(ty, ret.v, pol'))
            /\ UNCHANGED acc
    /\ UNCHANGED <<ty, orig, tx_type, tx_dict>>

\* the name converter on its own
AllFieldNames == UNION {{Fields(cls)[i].name : i \in 1..Len(Fields(cls))} : cls \in RecordTypes}

OtherNames ==
    { <<"g", "a", "s", "_", "P", "r", "i", "c", "e">>, <<"a", "_", "_", "b">>, <<"x", "_", "_">>,
      <<"_", "x">>, <<"a", "_", "b", "C", "_", "3", "d">>, <<"_">>, <<>> }

ToCamelCase ==
    /\ pc = "idle"
    /\ \E name \in AllFieldNames \cup OtherNames :
          /\ op' = "name"
          /\ arg' = JStr(name)
          /\ Finish(Ok(JStr(to_camel_case(name))))
    /\ UNCHANGED <<ty, orig, pol, tx_type, acc, tx_dict>>

(* ------------------------------------------------------------------ *)
(* structure(Type2Transaction, val): _IntoTypedTx(2) around the record *)
(* handler, one step per check and per field                           *)
(* ------------------------------------------------------------------ *)

TypeNum == 2

StructureTypedTx ==
    /\ pc = "idle"
    /\ \E val \in TypedTxInputs, p \in MissingPolicies :
          /\ arg' = val
          /\ pol' = p
    /\ op' = "structure"
    /\ ty' = TType2
    /\ pc' = "tx_check_mapping"
    /\ UNCHANGED <<orig, ret, tx_type, acc, tx_dict>>

\* if not isinstance(val, Mapping): raise
TxCheckMapping ==
    /\ pc = "tx_check_mapping"
    /\ IF arg.k # "map"
       THEN Finish(Raise(StructuringError, "Transaction must be a mapping type"))
       ELSE pc' = "tx_check_type_key" /\ UNCHANGED ret
    /\ UNCHANGED <<op, ty, arg, orig, pol, tx_type, acc, tx_dict>>

\* if "type" not in val: raise
TxCheckTypeKey ==
    /\ pc = "tx_check_type_key"
    /\ IF TypeKey \notin DOMAIN arg.map
       THEN Finish(Raise(StructuringError, "Transaction is missing the type field"))
       ELSE pc' = "tx_structure_type" /\ UNCHANGED ret
    /\ UNCHANGED <<op, ty, arg, orig, pol, tx_type, acc, tx_dict>>

\* tx_type = context.structurer.structure_into(int, val.get("type"))
TxStructureType ==
    /\ pc = "tx_structure_type"
    /\ LET r == StructureInto(TInt, arg.map[TypeKey], pol)
       IN  IF r.ok
           THEN /\ tx_type' = r
                /\ pc' = "tx_compare_type"
                /\ UNCHANGED ret
           ELSE /\ Finish(r)
                /\ UNCHANGED tx_type
    /\ UNCHANGED <<op, ty, arg, orig, pol, acc, tx_dict>>

\* faulty variant: the decoded type is not compared with the handler's tag
TxCompareTypeSkipped ==
    /\ pc = "tx_compare_type"
    /\ pc' = "tx_inner"
    /\ UNCHANGED <<op, ty, arg, orig, pol, ret, tx_type, acc, tx_dict>>

\* if tx_type != self._type_num: raise; else yield val to the record handler
TxCompareType ==
    /\ pc = "tx_compare_type"
    /\ IF tx_type.v.int # TypeNum
       THEN Finish(Raise(StructuringError, "Expected transaction type 2"))
       ELSE pc' = "tx_inner" /\ UNCHANGED ret
    /\ UNCHANGED <<op, ty, arg, orig, pol, tx_type, acc, tx_dict>>

\* the record handler structures its next field from the yielded mapping
TxInnerField ==
    /\ pc = "tx_inner"
    /\ Len(acc) < Len(Fields("Type2Transaction"))
    /\ LET r == IntoField(Fields("Type2Transaction")[Len(acc) + 1], arg.map, pol)
       IN  IF r.ok
           THEN /\ acc' = Append(acc, r.v)
                /\ UNCHANGED <<pc, ret>>
           ELSE /\ Finish(r)
                /\ UNCHANGED acc
    /\ UNCHANGED <<op, ty, arg, orig, pol, tx_type, tx_dict>>

\* the record handler builds the instance and sends it back: tx = yield val
TxInnerDone ==
    /\ pc = "tx_inner"
    /\ Len(acc) = Len(Fields("Type2Transaction"))
    /\ ret' = Ok(NewRecord("Type2Transaction", acc))
    /\ pc' = "tx_return"
    /\ UNCHANGED <<op, ty, arg, orig, pol, tx_type, acc, tx_dict>>

\* return tx
TxReturn ==
    /\ pc = "tx_return"
    /\ pc' = "done"
    /\ UNCHANGED <<op, ty, arg, orig, pol, ret, tx_type, acc, tx_dict>>

(* ------------------------------------------------------------------ *)
(* unstructure(tx): _AsTypedTx(2) around the record handler            *)
(* ------------------------------------------------------------------ *)

\* faulty variant: the discriminator is put into the mapping before the record
\* handler builds it
UnstructureTypedTxTypeFirst ==
    /\ pc = "idle"
    /\ \E s \in 0..(MaxSeed - 1) : orig' = Instance("Type2Transaction", s)
    /\ op' = "unstructure"
    /\ ty' = TType2
    /\ pc' = "as_inner"
    /\ tx_dict' = PutKey(tx_dict, TypeKey, AsIntToHex(TypeNum))
    /\ UNCHANGED <<arg, pol, ret, tx_type, acc>>

UnstructureTypedTx ==
    /\ pc = "idle"
    /\ \E s \in 0..(MaxSeed - 1) : orig' = Instance("Type2Transaction", s)
    /\ op' = "unstructure"
    /\ ty' = TType2
    /\ pc' = "as_inner"
    /\ UNCHANGED <<arg, pol, ret, tx_type, acc, tx_dict>>

\* tx_dict = yield val: the record handler unstructures its next field
AsInnerField ==
    /\ pc = "as_inner"
    /\ Len(acc) < Len(Fields("Type2Transaction"))
    /\ LET f == Fields("Type2Transaction")[Len(acc) + 1]
       IN  /\ tx_dict' = PutKey(tx_dict, UnstructureWireName(f.name),
                                UnstructureAs(f.type, orig.fields[f.name]))
           /\ acc' = Append(acc, f.name)
    /\ UNCHANGED <<pc, op, ty, arg, orig, pol, ret, tx_type>>

\* the record handler sends the mapping back
AsInnerDone ==
    /\ pc = "as_inner"
    /\ Len(acc) = Len(Fields("Type2Transaction"))
    /\ pc' = "as_insert_type"
    /\ UNCHANGED <<op, ty, arg, orig, pol, ret, tx_type, acc, tx_dict>>

\* tx_dict["type"] = _AsIntToHex().unstructure(context, self._type_num)
AsInsertType ==
    /\ pc = "as_insert_type"
    /\ tx_dict' = PutKey(tx_dict, TypeKey, AsIntToHex(TypeNum))
    /\ pc' = "as_return"
    /\ UNCHANGED <<op, ty, arg, orig, pol, ret, tx_type, acc>>

\* return tx_dict
AsReturn ==
    /\ pc = "as_return"
    /\ Finish(Ok(JMap(tx_dict)))
    /\ UNCHANGED <<op, ty, arg, orig, pol, tx_type, acc, tx_dict>>

\* the call is over
Return ==
    /\ pc = "done"
    /\ pc' = "idle"
    /\ op' = "none"
    /\ ty' = TNone
    /\ arg' = JNull
    /\ orig' = PyNone
    /\ pol' = "strict"
    /\ ret' = Ok(PyNone)
    /\ tx_type' = Ok(PyNone)
    /\ acc' = <<>>
    /\ tx_dict' = EmptyMap

Next ==
    \/ StructureHex
    \/ StructureLeaf
    \/ StructureRecord
    \/ StructureRecordAbsent
    \/ UnstructureHex
    \/ UnstructureRecord
    \/ StructureBack
    \/ ToCamelCase
    \/ StructureTypedTx
    \/ TxCheckMapping
    \/ TxCheckTypeKey
    \/ TxStructureType
    \/ TxCompareType
    \/ TxInnerField
    \/ TxInnerDone
    \/ TxReturn
    \/ UnstructureTypedTx
    \/ AsInnerField
    \/ AsInnerDone
    \/ AsInsertType
    \/ AsReturn
    \/ Return

Spec == Init /\ [][Next]_vars

(* ------------------------------------------------------------------ *)
(* Properties                                                          *)
(* ------------------------------------------------------------------ *)

Done(o) == pc = "done" /\ op = o

IsRecordType(T) == T.t \in {"dataclass", "Type2Transaction"}

\* C1: round trip of records.  For every record class R of the schema and
\* every valid instance v of R, structure(R, unstructure(v)) succeeds and
\* returns a value equal to v.
C1_RoundTripRecords ==
    (Done("roundtrip") /\ IsRecordType(ty)) => (ret.ok /\ ret.v = orig)

TransactionsName == <<"t", "r", "a", "n", "s", "a", "c", "t", "i", "o", "n", "s">>

\* a block with transactions has made the round trip
C1_Witness ==
    /\ Done("roundtrip")
    /\ ty = TRec("BlockInfo")
    /\ ret.ok
    /\ Len(orig.fields[TransactionsName].tuple) > 0
    /\ ret.v = orig

\* C2: hex round trip.  Unstructuring a non-negative integer or a byte
\* string never fails and gives a text; structuring that text as int
\* (as bytes) returns the integer (the bytes).
C2_HexRoundTrip ==
    (pc = "done" /\ ty.t \in {"int", "bytes"}) =>
        /\ op = "unstructure" => (ret.ok /\ ret.v.k = "str")
        /\ op = "roundtrip" => (ret.ok /\ ret.v = orig)

\* 255 and the bytes ab 00 have made the round trip
C2_Witness ==
    /\ Done("roundtrip")
    /\ ret.ok
    /\ \/ ty = TInt /\ orig = PyInt(255) /\ arg = JStr(<<"0", "x", "f", "f">>)
       \/ ty = TBytes /\ orig = PyBytes(<<171, 0>>)
                      /\ arg = JStr(<<"0", "x", "a", "b", "0", "0">>)

MismatchMessage == "Expected transaction type 2"

\* the mapping holds, besides "type", the wire form of a valid transaction
OtherFieldsValid(m) ==
    DropKey(DropKey(m, TypeKey), ExtraKey) \in WireForms("Type2Transaction", MaxSeed)

\* C3: discriminator enforcement.  Structuring a mapping into
\* Type2Transaction fails with the type-mismatch StructuringError whenever
\* its "type" decodes to an integer other than 2, whatever the other fields
\* hold; it succeeds when "type" is "0x2" and the other fields are valid; and
\* every unstructured Type2Transaction holds "type": "0x2".
C3_Discriminator ==
    /\ (Done("structure") /\ ty = TType2 /\ arg.k = "map" /\ TypeKey \in DOMAIN arg.map) =>
          LET decoded == IntoIntFromHex(arg.map[TypeKey])
          IN  /\ (decoded.ok /\ decoded.v.int # 2) =>
                    ret = Raise(StructuringError, MismatchMessage)
              /\ (arg.map[TypeKey] = JStr(<<"0", "x", "2">>) /\ OtherFieldsValid(arg.map)) =>
                    ret.ok
    /\ (Done("unstructure") /\ ty = TType2) =>
          (ret.ok /\ ret.v.k = "map" /\ TypeKey \in DOMAIN ret.v.map
                  /\ ret.v.map[TypeKey] = JStr(<<"0", "x", "2">>))

\* a valid transaction mapping with "type": "0x1" has been refused
C3_Witness ==
    /\ Done("structure")
    /\ ty = TType2
    /\ arg.k = "map"
    /\ TypeKey \in DOMAIN arg.map
    /\ arg.map[TypeKey] = JStr(<<"0", "x", "1">>)
    /\ OtherFieldsValid(arg.map)
    /\ ret = Raise(StructuringError, MismatchMessage)

\* the wire name as the claim words it: one trailing underscore stripped, the
\* underscores dropped, the first letter of every later segment upper-cased,
\* every other letter as it is
ClaimWireName(name) ==
    LET n == IF Len(name) > 0 /\ name[Len(name)] = "_"
             THEN SubSeq(name, 1, Len(name) - 1) ELSE name
        kept == SelectSeq([i \in 1..Len(n) |-> i], LAMBDA i : n[i] # "_")
    IN  [j \in 1..Len(kept) |->
            IF kept[j] > 1 /\ n[kept[j] - 1] = "_" THEN PyUpper(n[kept[j]]) ELSE n[kept[j]]]

\* C4: field-name translation.  For every field name of the schema the wire
\* name is the snake_case name turned into camelCase after one trailing
\* underscore is stripped, the structuring and the unstructuring registry use
\* that same name, and an unstructured record is keyed by these names.
C4_FieldNames ==
    /\ (Done("name") /\ arg.str \in AllFieldNames) =>
          /\ ret.v = JStr(ClaimWireName(arg.str))
          /\ StructureWireName(arg.str) = ClaimWireName(arg.str)
          /\ UnstructureWireName(arg.str) = ClaimWireName(arg.str)
    /\ (Done("unstructure") /\ IsRecordType(ty)) =>
          LET fs == Fields(ty.n)
          IN  DOMAIN ret.v.map = {ClaimWireName(fs[i].name) : i \in 1..Len(fs)}
                                    \cup (IF ty = TType2 THEN {TypeKey} ELSE {})

\* max_fee_per_gas has been translated to maxFeePerGas
C4_Witness ==
    /\ Done("name")
    /\ arg = JStr(<<"m", "a", "x", "_", "f", "e", "e", "_", "p", "e", "r", "_", "g", "a", "s">>)
    /\ ret.v = JStr(<<"m", "a", "x", "F", "e", "e", "P", "e", "r", "G", "a", "s">>)

CodeName == <<"c", "o", "d", "e">>

IsHexText(j) == j.k = "str" /\ StartsWith0x(j.str)

\* C5: error-code asymmetry.  An unstructured RPCError holds its code as a
\* plain integer equal to the code; structuring an RPCError accepts the code
\* as a plain integer only; every other integer field of every record is
\* unstructured to a hex text.
C5_ErrorCode ==
    /\ (Done("unstructure") /\ ty = TRec("RPCError")) =>
          ret.v.map[CodeName] = JInt(orig.fields[CodeName].int)
    /\ (Done("structure") /\ ty = TRec("RPCError") /\ arg.k = "map"
            /\ CodeName \in DOMAIN arg.map) =>
          /\ ret.ok => (arg.map[CodeName].k = "int"
                        /\ ret.v.fields[CodeName] = PyInt(arg.map[CodeName].int))
          /\ (arg.map[CodeName].k = "int"
                /\ \E m \in WireForms("RPCError", MaxSeed) :
                       DropKey(arg.map, ExtraKey) = PutKey(m, CodeName, arg.map[CodeName]))
             => ret.ok
    /\ (Done("unstructure") /\ IsRecordType(ty)) =>
          LET fs == Fields(ty.n)
          IN  \A i \in 1..Len(fs) :
                  (fs[i].type # TErrorCode /\ orig.fields[fs[i].name].k \in {"int", "Amount"}) =>
                      IsHexText(ret.v.map[to_camel_case(fs[i].name)])

\* an RPCError with code -32602 has been unstructured to the integer -32602
C5_Witness ==
    /\ Done("unstructure")
    /\ ty = TRec("RPCError")
    /\ orig.fields[CodeName] = PyInt(-32602)
    /\ ret.v.map[CodeName] = JInt(-32602)

\* the text the claim accepts as an integer: "0x" and one or more hex digits
ClaimIntText(j) ==
    /\ j.k = "str"
    /\ Len(j.str) >= 3
    /\ StartsWith0x(j.str)
    /\ \A i \in 3..Len(j.str) : IsHexDigit(j.str[i])

\* C7: integer decoding is strict.  Structuring a value as int succeeds if
\* and only if it is a text of "0x" and one or more hex digits, then returns
\* that base-16 number; every other value fails with a StructuringError.
C7_StrictInt ==
    (Done("structure") /\ ty = TInt) =>
        IF ClaimIntText(arg)
        THEN ret = Ok(PyInt(DigitsValue(SubSeq(arg.str, 3, Len(arg.str)))))
        ELSE ~ret.ok /\ ret.err = StructuringError

\* the text the claim accepts as bytes: "0x" and an even number of hex digits
ClaimBytesText(j) ==
    /\ j.k = "str"
    /\ StartsWith0x(j.str)
    /\ Len(j.str) % 2 = 0
    /\ \A i \in 3..Len(j.str) : IsHexDigit(j.str[i])

\* C8: bytes decoding is strict.  Structuring a value as bytes succeeds if
\* and only if it is a text of "0x" and an even number of hex digits, then
\* returns those bytes; every other value fails with a StructuringError.
C8_StrictBytes ==
    (Done("structure") /\ ty = TBytes) =>
        IF ClaimBytesText(arg)
        THEN ret = Ok(PyBytes([i \in 1..((Len(arg.str) - 2) \div 2) |->
                                 16 * DigitValue(arg.str[2 * i + 1])
                                    + DigitValue(arg.str[2 * i + 2])]))
        ELSE ~ret.ok /\ ret.err = StructuringError

\* C9: failures are structuring errors only.  A call of structure() returns a
\* value or fails with StructuringError; no other exception escapes.
C9_OnlyStructuringError ==
    (pc = "done" /\ op \in {"structure", "roundtrip"} /\ ~ret.ok) =>
        ret.err = StructuringError

\* C10: discriminator ordering.  Structuring: no field is structured before
\* the mapping check, the presence check and the comparison of the decoded
\* type with the tag have passed, so a failure of these leaves no field
\* structured.  Unstructuring: while the record handler builds the mapping it
\* holds no "type" entry, and "type" is inserted into the complete mapping.
C10_Ordering ==
    /\ (ty = TType2 /\ op \in {"structure", "roundtrip"}) =>
          /\ Len(acc) > 0 =>
                (arg.k = "map" /\ TypeKey \in DOMAIN arg.map
                    /\ tx_type.ok /\ tx_type.v = PyInt(TypeNum))
          /\ pc \in {"tx_check_mapping", "tx_check_type_key", "tx_structure_type",
                     "tx_compare_type"} => acc = <<>>
          /\ (pc = "done" /\ ~(arg.k = "map" /\ TypeKey \in DOMAIN arg.map
                                   /\ tx_type.ok /\ tx_type.v = PyInt(TypeNum)))
             => (~ret.ok /\ acc = <<>>)
    /\ (ty = TType2 /\ op = "unstructure") =>
          /\ pc = "as_inner" => TypeKey \notin DOMAIN tx_dict
          /\ TypeKey \in DOMAIN tx_dict =>
                (WireKeys("Type2Transaction") \subseteq DOMAIN tx_dict
                    /\ Len(acc) = Len(Fields("Type2Transaction")))

\* a mapping with every field valid and "type": "0x1" has been refused with
\* no field structured
C10_Witness ==
    /\ Done("structure")
    /\ ty = TType2
    /\ arg.k = "map"
    /\ TypeKey \in DOMAIN arg.map
    /\ tx_type = Ok(PyInt(1))
    /\ OtherFieldsValid(arg.map)
    /\ ~ret.ok
    /\ acc = <<>>
====
